---- MODULE Spec2Model ----
(***************************************************************************)
(* The notes service of app/backend/app.py: eight Flask request handlers   *)
(* over one PostgreSQL table, notes(id SERIAL, title NOT NULL, content NOT *)
(* NULL, category, created_at, updated_at).                                *)
(*                                                                         *)
(* Requests are served concurrently, each on a connection of its own.  A   *)
(* handler is one action up to the point where it waits for the database   *)
(* with something other requests can tell apart still to come:             *)
(*   create_note   BEGIN (CURRENT_TIMESTAMP is fixed) | INSERT (the        *)
(*                 sequence value is taken) | COMMIT (the row is visible)  *)
(*   update_note   BEGIN | UPDATE and COMMIT                               *)
(*   get_stats     the count query | the GROUP BY query                    *)
(* The other handlers run one statement and are one action each.  A        *)
(* statement of a READ COMMITTED transaction reads the rows committed when *)
(* it runs.  An UPDATE or DELETE holds its row's lock until COMMIT, so a   *)
(* second writer of the row waits and nobody sees the row change in        *)
(* between: statement and COMMIT are one step.                             *)
(*                                                                         *)
(* init_db runs whenever a process of the service starts; it swallows its  *)
(* errors, so the service also runs on a database without the table.       *)
(*                                                                         *)
(* A response is the value of the handler's operator (GetNoteResponse,     *)
(* UpdateApply, ...); the state holds the database and the requests in     *)
(* flight, and two histories the properties read.                          *)
(*                                                                         *)
(* The values of a request body are JSON values of any type; a column     *)
(* holds a string or NULL, and the database stores the text of a number.   *)
(* Strings are drawn from a small alphabet, all of them shorter than the   *)
(* column widths VARCHAR(255) and VARCHAR(50).  Python's None and SQL NULL *)
(* are the one value None.                                                 *)
(***************************************************************************)
EXTENDS Integers, Sequences, FiniteSets, Bags, TLC

VARIABLES
    table,      \* whether relation notes exists in the database
    notes,      \* the committed rows of table notes: id -> row
    seq,        \* last value handed out by the sequence behind id SERIAL
    now,        \* the latest start time of a transaction that writes a
                \* timestamp (0 before the first)
    pending,    \* the requests in flight: their open transactions and the
                \* locals of their handlers; a bag, as two requests can be
                \* at the same point with the same locals
    issued,     \* history: the ids the 201 responses sent have returned
    deleted     \* history: the ids whose DELETE returned 200

vars == <<table, notes, seq, now, pending, issued, deleted>>

-----------------------------------------------------------------------------
(* Bounds of the model *)

\* The sequence hands out at most MaxSeq ids.
MaxSeq == 2

\* At most MaxClock transactions take a timestamp.
MaxClock == 2

\* At most MaxInFlight requests are between two statements at a time.
MaxInFlight == 2

-----------------------------------------------------------------------------
(* Values *)

None == "<None>"

EmptyDict == [k \in {} |-> None]

\* A JSON value as Python holds it: kind "none" is null (Python's None),
\* "str" a string, "int" a number or boolean, "dict" an object and "list" an
\* array.
Json(kind, val) == [kind |-> kind, val |-> val]

Null == Json("none", None)
Str(s) == Json("str", s)
Num(n) == Json("int", n)
Obj(d) == Json("dict", d)

\* A key the body does not have.
Absent == Json("absent", None)

\* The JSON object with title t, content c and category g.
Dict(t, c, g) ==
    [ k \in { k \in {"title", "content", "category"} :
                 (k = "title" /\ t # Absent) \/ (k = "content" /\ c # Absent)
                   \/ (k = "category" /\ g # Absent) } |->
        IF k = "title" THEN t ELSE IF k = "content" THEN c ELSE g ]

\* The values a body may give title and content: the code tests no type,
\* so null, a string (the empty one too), a number, and for title an object.
TitleVals == {Null, Str(""), Str("a"), Num(5), Obj(EmptyDict)}
ContentVals == {Null, Str(""), Str("a"), Num(5)}

\* The JSON objects a request body may be.  With title and content: each
\* value of ContentVals for both (the numbers with a category, a string),
\* each other value of TitleVals with content "a", and a null category
\* besides "a" for both.  With one key: content, title, category, or an
\* unrecognised one.  And the empty object.
Dicts ==
    { Dict(v, v, IF v.kind = "int" THEN Str("work") ELSE Absent) : v \in ContentVals }
      \cup { Dict(t, Str("a"), Absent) : t \in TitleVals \ ContentVals }
      \cup { Dict(Str("a"), Str("a"), Null) }
      \cup { Dict(Absent, Str("a"), Absent), Dict(Str("a"), Absent, Absent) }
      \cup { Dict(Absent, Absent, Str("work")) }
      \cup { [k \in {"other"} |-> Str("a")] }
      \cup { Dict(Absent, Absent, Absent) }

\* request.get_json() of a request without a body.
NoData == Null

\* What request.get_json() returns.
Bodies ==
    {NoData}
      \cup { Obj(d) : d \in Dicts }
      \cup { Num(5) }
      \cup { Json("list", <<"title", "content">>) }
      \cup { Str("title content") }

\* The ids a request path may name: the first two the sequence hands out.
Ids == {1, 2}

\* request.args.get('category'): None when the parameter is absent.
CategoryArgs == {None, "", "general", "work"}

\* What the database does to a connection attempt: "ok" accepts it;
\* "refused" makes psycopg2.connect raise (the database is unreachable).
ConnOutcomes == {"ok", "refused"}

Columns == {"title", "content", "category"}

-----------------------------------------------------------------------------
(* Python *)

\* not data
Falsy(data) ==
    CASE data.kind = "none" -> TRUE
      [] data.kind = "dict" -> DOMAIN data.val = {}
      [] data.kind = "int"  -> data.val = 0
      [] data.kind = "list" -> Len(data.val) = 0
      [] data.kind = "str"  -> data.val = ""

\* Whether `key in data` is defined: on a number it raises TypeError.
Container(data) == data.kind \in {"dict", "list", "str"}

\* k is a substring of s
Substring(k, s) ==
    \E i \in 1..(Len(s) - Len(k) + 1) : SubSeq(s, i, i + Len(k) - 1) = k

\* key in data: a key of a dict, an element of a list, a substring of a str
In(key, data) ==
    CASE data.kind = "dict" -> key \in DOMAIN data.val
      [] data.kind = "list" -> \E i \in 1..Len(data.val) : data.val[i] = key
      [] data.kind = "str"  -> Substring(key, data.val)

\* Whether data[key] is defined for a str key: on a list or a str it raises
\* TypeError.
Subscriptable(data) == data.kind = "dict"

\* Python truthiness of a str-or-None.
Truthy(s) == s # None /\ s # ""

\* dict.get(key, default)
DictGet(d, key, default) == IF key \in DOMAIN d THEN d[key] ELSE default

\* Whether psycopg2 can pass v as a query parameter: for a dict cur.execute
\* raises ProgrammingError (can't adapt) before it sends anything.
Adaptable(v) == v.kind # "dict"

\* The value a VARCHAR or TEXT column takes from parameter v: NULL of None,
\* the string of a str, the digits of a number.
ToText(v) ==
    CASE v.kind = "none" -> None
      [] v.kind = "str"  -> v.val
      [] v.kind = "int"  -> ToString(v.val)

\* datetime.isoformat(): a timestamp rendered as a string.
Isoformat(t) == "T" \o ToString(t)

\* The JSON record the handlers build from a row (a NULL timestamp is 0).
NoteJson(id, row) ==
    [ id         |-> id,
      title      |-> row.title,
      content    |-> row.content,
      category   |-> row.category,
      created_at |-> IF row.created_at # 0 THEN Isoformat(row.created_at) ELSE None,
      updated_at |-> IF row.updated_at # 0 THEN Isoformat(row.updated_at) ELSE None ]

\* jsonify sorts the keys of a dict: None does not compare with a str.
Sortable(keys) == None \in keys => keys = {None}

\* A response: the handler and the id of its path, the status and body
\* returned, and whether the handler opened a connection and closed it.
Response(op, id, status, body, opened, closed) ==
    [ op |-> op, id |-> id, status |-> status, body |-> body,
      connOpened |-> opened, connClosed |-> closed ]

NoResponse == Response("none", 0, 0, None, FALSE, FALSE)

\* The handler returns response r.  A response is the value of the
\* handler's operator; it is no part of the state.
Sends(r) == r # NoResponse

\* What the first step of a handler comes to on table tbl: a response, or a
\* transaction begun on an open connection; and the table it leaves.
Answers(r, tbl) == [begins |-> FALSE, resp |-> r, notes |-> tbl]
Begins(tbl) == [begins |-> TRUE, resp |-> NoResponse, notes |-> tbl]

\* A request in flight: the handler, the statement it has completed (pc),
\* its locals (note_id, data, the id RETURNING gave, total_notes), the
\* start time of its transaction, and the ids the 201 responses had returned
\* when it arrived.
Request(op, pc, id, data, ts, total, after) ==
    [ op |-> op, pc |-> pc, id |-> id, data |-> data, ts |-> ts,
      total |-> total, after |-> after ]

-----------------------------------------------------------------------------
(* Start of the service *)

\* The state after init_db: the table exists unless init_db failed, which
\* it does without stopping the service.
Init ==
    /\ table \in BOOLEAN
    /\ notes = << >>
    /\ seq = 0
    /\ now = 0
    /\ pending = EmptyBag
    /\ issued = {}
    /\ deleted = {}

\* A process of the service starts (a restart, another replica) on the
\* database as it is: CREATE TABLE IF NOT EXISTS keeps the rows of a table
\* that exists; an error is logged and swallowed.
init_db(conn) ==
    /\ table' = (table \/ conn = "ok")
    /\ UNCHANGED <<notes, seq, now, pending, issued, deleted>>

-----------------------------------------------------------------------------
(* The database *)

\* CURRENT_TIMESTAMP of a transaction that begins when the latest start
\* time is t: the start time of the transaction, which is later.
CurrentTimestamp(t) == t + 1

\* A faulty NextVal: the id computed from the rows present, MAX(id) + 1.
NextValFromRows(s, tbl) ==
    IF DOMAIN tbl = {} THEN 1
    ELSE (CHOOSE m \in DOMAIN tbl : \A i \in DOMAIN tbl : i <= m) + 1

\* nextval of the sequence behind id SERIAL: never rolled back, never reset.
NextVal(s, tbl) == s + 1

\* Columns title and content are NOT NULL.
NotNullViolated(row) == row.title = None \/ row.content = None

\* INSERT INTO notes (title, content, category) VALUES (...), committed: id
\* is the sequence's value, created_at and updated_at default to
\* CURRENT_TIMESTAMP.
InsertRow(tbl, id, title, content, category, ts) ==
    [ i \in DOMAIN tbl \cup {id} |->
        IF i = id
        THEN [ title |-> title, content |-> content, category |-> category,
               created_at |-> ts, updated_at |-> ts ]
        ELSE tbl[i] ]

\* A faulty DeleteRow: the DELETE is never committed.
DeleteRowUncommitted(tbl, id) == tbl

\* DELETE FROM notes WHERE id = %s, committed.
DeleteRow(tbl, id) == [ i \in DOMAIN tbl \ {id} |-> tbl[i] ]

\* The row UPDATE notes SET <the supplied fields>, updated_at =
\* CURRENT_TIMESTAMP makes of a row.
ApplyUpdate(row, d, ts) ==
    [ title      |-> IF "title" \in DOMAIN d THEN ToText(d["title"]) ELSE row.title,
      content    |-> IF "content" \in DOMAIN d THEN ToText(d["content"]) ELSE row.content,
      category   |-> IF "category" \in DOMAIN d THEN ToText(d["category"]) ELSE row.category,
      created_at |-> row.created_at,
      updated_at |-> ts ]

\* WHERE category = %s: NULL equals nothing.
CategoryMatches(row, c) == row.category # None /\ row.category = c

\* The ids the list query selects: the filter applies only to a truthy
\* parameter (if category:).
Selected(tbl, category) ==
    IF Truthy(category)
    THEN { i \in DOMAIN tbl : CategoryMatches(tbl[i], category) }
    ELSE DOMAIN tbl

\* ORDER BY created_at DESC: every order of the ids S with created_at
\* descending (rows with equal created_at come in any order).
OrderByCreatedDesc(tbl, S) ==
    { o \in [1..Cardinality(S) -> S] :
        /\ \A i, j \in 1..Cardinality(S) : i # j => o[i] # o[j]
        /\ \A i, j \in 1..Cardinality(S) :
              i < j => tbl[o[i]].created_at >= tbl[o[j]].created_at }

\* SELECT category, COUNT(*) FROM notes GROUP BY category, as the dict
\* get_stats builds from it (NULL is a group of its own, key None).
GroupByCategory(tbl) ==
    [ c \in { tbl[i].category : i \in DOMAIN tbl } |->
        Cardinality({ i \in DOMAIN tbl : tbl[i].category = c }) ]

\* SELECT COUNT(*) FROM notes
CountRows(tbl) == Cardinality(DOMAIN tbl)

-----------------------------------------------------------------------------
(* GET /health *)

HealthResponse(conn) ==
    IF conn = "refused"
    THEN Response("health", 0, 503, "unhealthy", FALSE, FALSE)
    ELSE Response("health", 0, 200, "healthy", TRUE, TRUE)

health_check(conn) ==
    /\ Sends(HealthResponse(conn))
    /\ UNCHANGED vars

(* GET /ready *)

\* SELECT 1 needs no table.
ReadyResponse(conn) ==
    IF conn = "refused"
    THEN Response("ready", 0, 503, "not ready", FALSE, FALSE)
    ELSE Response("ready", 0, 200, "ready", TRUE, TRUE)

readiness_check(conn) ==
    /\ Sends(ReadyResponse(conn))
    /\ UNCHANGED vars

(* GET /api/notes *)

\* The responses get_notes may give on table tbl (exists: whether the
\* relation exists): one for each order the query may return the rows in.
ListResponses(exists, tbl, category, conn) ==
    IF conn = "refused"
    THEN { Response("list", 0, 500, "Failed to retrieve notes", FALSE, FALSE) }
    ELSE IF ~exists
    THEN \* cur.execute raises: the connection is not closed
         { Response("list", 0, 500, "Failed to retrieve notes", TRUE, FALSE) }
    ELSE { Response("list", 0, 200,
                    [ i \in DOMAIN o |-> NoteJson(o[i], tbl[o[i]]) ], TRUE, TRUE)
           : o \in OrderByCreatedDesc(tbl, Selected(tbl, category)) }

get_notes(category, conn) ==
    /\ \E r \in ListResponses(table, notes, category, conn) : Sends(r)
    /\ UNCHANGED vars

(* GET /api/notes/<id> *)

\* What get_note answers on table tbl.
GetNoteResponse(exists, tbl, note_id, conn) ==
    IF conn = "refused"
    THEN Response("get", note_id, 500, "Failed to retrieve note", FALSE, FALSE)
    ELSE IF ~exists
    THEN Response("get", note_id, 500, "Failed to retrieve note", TRUE, FALSE)
    ELSE IF note_id \in DOMAIN tbl
    THEN Response("get", note_id, 200, NoteJson(note_id, tbl[note_id]), TRUE, TRUE)
    ELSE Response("get", note_id, 404, "Note not found", TRUE, TRUE)

get_note(note_id, conn) ==
    /\ Sends(GetNoteResponse(table, notes, note_id, conn))
    /\ UNCHANGED vars

(* POST /api/notes *)

\* data.get('category', 'general')
CreateCategory(d) == DictGet(d, "category", Str("general"))

\* The locals title, content, category: the parameters of the INSERT.
CreateParams(d) ==
    [ title |-> d["title"], content |-> d["content"], category |-> CreateCategory(d) ]

\* The handler from the request to BEGIN: the validation of the body, the
\* connection and the parameters of the INSERT.
CreateRequest(tbl, data, conn) ==
    LET R(status, body) == Response("create", 0, status, body, FALSE, FALSE)
        Fails == Response("create", 0, 500, "Failed to create note", TRUE, FALSE)
    IN
    IF Falsy(data)
    THEN Answers(R(400, "Title and content are required"), tbl)
    ELSE IF ~Container(data)
    THEN \* 'title' not in data raises TypeError outside the try
         Answers(R(500, "Internal Server Error"), tbl)
    ELSE IF ~In("title", data) \/ ~In("content", data)
    THEN Answers(R(400, "Title and content are required"), tbl)
    ELSE IF ~Subscriptable(data)
    THEN \* data['title'] raises TypeError outside the try
         Answers(R(500, "Internal Server Error"), tbl)
    ELSE IF conn = "refused"
    THEN Answers(R(500, "Failed to create note"), tbl)
    ELSE IF \E k \in Columns : ~Adaptable(CreateParams(data.val)[k])
    THEN \* cur.execute raises: the connection is not closed
         Answers(Fails, tbl)
    ELSE Begins(tbl)

create_note(data, conn) ==
    LET r == CreateRequest(notes, data, conn)
    IN  /\ notes' = r.notes
        /\ IF r.begins
           THEN /\ now < MaxClock
                /\ BagCardinality(pending) < MaxInFlight
                /\ now' = CurrentTimestamp(now)
                /\ pending' = pending (+) SetToBag(
                      { Request("create", "begun", 0, data.val, now', 0, issued) })
           ELSE /\ Sends(r.resp)
                /\ UNCHANGED <<now, pending>>
        /\ UNCHANGED <<table, seq, issued, deleted>>

\* The INSERT of request t with the sequence at s: the sequence value it
\* leaves, and the response of the except clause when it raises.
CreateInsert(exists, tbl, s, t) ==
    LET Fails == Response("create", 0, 500, "Failed to create note", TRUE, FALSE)
        p == CreateParams(t.data)
    IN
    IF ~exists
    THEN [inserted |-> FALSE, resp |-> Fails, seq |-> s]
    ELSE IF NotNullViolated([title |-> ToText(p.title), content |-> ToText(p.content)])
    THEN \* the INSERT raises after nextval: the id is spent, no row is
         \* stored, the connection is not closed
         [inserted |-> FALSE, resp |-> Fails, seq |-> NextVal(s, tbl)]
    ELSE [inserted |-> TRUE, resp |-> NoResponse, seq |-> NextVal(s, tbl)]

create_insert(t) ==
    /\ t.op = "create" /\ t.pc = "begun"
    /\ LET r == CreateInsert(table, notes, seq, t)
       IN  /\ r.seq <= MaxSeq
           /\ seq' = r.seq
           /\ pending' = IF r.inserted
                         THEN (pending (-) SetToBag({t})) (+)
                                SetToBag({ [t EXCEPT !.pc = "inserted", !.id = r.seq] })
                         ELSE pending (-) SetToBag({t})
           /\ r.inserted \/ Sends(r.resp)
    /\ UNCHANGED <<table, notes, now, issued, deleted>>

\* conn.commit() of request t and its 201 response: the row becomes
\* visible.
CreateCommit(tbl, t) ==
    LET p == CreateParams(t.data)
    IN  [ resp  |-> Response("create", 0, 201,
                             [message |-> "Note created successfully", id |-> t.id],
                             TRUE, TRUE),
          notes |-> InsertRow(tbl, t.id, ToText(p.title), ToText(p.content),
                              ToText(p.category), t.ts) ]

create_commit(t) ==
    /\ t.op = "create" /\ t.pc = "inserted"
    /\ LET r == CreateCommit(notes, t)
       IN  /\ notes' = r.notes
           /\ Sends(r.resp)
           /\ issued' = issued \cup {r.resp.body.id}
    /\ pending' = pending (-) SetToBag({t})
    /\ UNCHANGED <<table, seq, now, deleted>>

(* PUT /api/notes/<id> *)

\* The keys of the body that become SET clauses.
UpdateFields(data) == { k \in Columns : In(k, data) }

\* The handler from the request to BEGIN: the validation of the body, the
\* connection, the SET clauses and their parameters.
UpdateRequest(tbl, note_id, data, conn) ==
    LET R(status, body, opened, closed) ==
            Response("update", note_id, status, body, opened, closed)
    IN
    IF Falsy(data)
    THEN Answers(R(400, "No data provided", FALSE, FALSE), tbl)
    ELSE IF conn = "refused"
    THEN Answers(R(500, "Failed to update note", FALSE, FALSE), tbl)
    ELSE IF ~Container(data)
    THEN \* 'title' in data raises TypeError inside the try
         Answers(R(500, "Failed to update note", TRUE, FALSE), tbl)
    ELSE IF UpdateFields(data) = {}
    THEN \* returns with the connection of line 211 still open
         Answers(R(400, "No valid fields to update", TRUE, FALSE), tbl)
    ELSE IF ~Subscriptable(data)
    THEN \* data['title'] raises TypeError inside the try
         Answers(R(500, "Failed to update note", TRUE, FALSE), tbl)
    ELSE IF \E k \in UpdateFields(data) : ~Adaptable(data.val[k])
    THEN \* cur.execute raises inside the try
         Answers(R(500, "Failed to update note", TRUE, FALSE), tbl)
    ELSE Begins(tbl)

update_note(note_id, data, conn) ==
    LET r == UpdateRequest(notes, note_id, data, conn)
    IN  /\ notes' = r.notes
        /\ IF r.begins
           THEN /\ now < MaxClock
                /\ BagCardinality(pending) < MaxInFlight
                /\ now' = CurrentTimestamp(now)
                /\ pending' = pending (+) SetToBag(
                      { Request("update", "begun", note_id, data.val, now', 0, {}) })
           ELSE /\ Sends(r.resp)
                /\ UNCHANGED <<now, pending>>
        /\ UNCHANGED <<table, seq, issued, deleted>>

\* The UPDATE of request t on table tbl, its COMMIT and its response.
UpdateApply(exists, tbl, t) ==
    LET R(status, body, opened, closed) ==
            Response("update", t.id, status, body, opened, closed)
    IN
    IF ~exists
    THEN [resp |-> R(500, "Failed to update note", TRUE, FALSE), notes |-> tbl]
    ELSE IF t.id \notin DOMAIN tbl
    THEN \* cur.rowcount == 0
         [resp |-> R(404, "Note not found", TRUE, TRUE), notes |-> tbl]
    ELSE IF NotNullViolated(ApplyUpdate(tbl[t.id], t.data, t.ts))
    THEN \* the UPDATE raises: nothing is committed, nothing closed
         [resp |-> R(500, "Failed to update note", TRUE, FALSE), notes |-> tbl]
    ELSE [resp  |-> R(200, "Note updated successfully", TRUE, TRUE),
          notes |-> [tbl EXCEPT ![t.id] = ApplyUpdate(tbl[t.id], t.data, t.ts)]]

update_apply(t) ==
    /\ t.op = "update" /\ t.pc = "begun"
    /\ LET r == UpdateApply(table, notes, t)
       IN  notes' = r.notes /\ Sends(r.resp)
    /\ pending' = pending (-) SetToBag({t})
    /\ UNCHANGED <<table, seq, now, issued, deleted>>

(* DELETE /api/notes/<id> *)

\* What delete_note does on table tbl: its response and the table it leaves.
DeleteNote(exists, tbl, note_id, conn) ==
    LET R(status, body, opened, closed) ==
            Response("delete", note_id, status, body, opened, closed)
    IN
    IF conn = "refused"
    THEN [resp |-> R(500, "Failed to delete note", FALSE, FALSE), notes |-> tbl]
    ELSE IF ~exists
    THEN [resp |-> R(500, "Failed to delete note", TRUE, FALSE), notes |-> tbl]
    ELSE IF note_id \notin DOMAIN tbl
    THEN [resp |-> R(404, "Note not found", TRUE, TRUE), notes |-> tbl]
    ELSE [resp |-> R(200, "Note deleted successfully", TRUE, TRUE),
          notes |-> DeleteRow(tbl, note_id)]

delete_note(note_id, conn) ==
    LET r == DeleteNote(table, notes, note_id, conn)
    IN  /\ Sends(r.resp)
        /\ notes' = r.notes
        /\ deleted' = IF r.resp.status = 200 THEN deleted \cup {note_id} ELSE deleted
        /\ UNCHANGED <<table, seq, now, pending, issued>>

(* GET /api/stats *)

\* The handler from the request to the result of SELECT COUNT(*) FROM
\* notes: a response when it fails, else the second query is to come.
StatsRequest(exists, tbl, conn) ==
    IF conn = "refused"
    THEN Answers(Response("stats", 0, 500, "Failed to retrieve stats", FALSE, FALSE), tbl)
    ELSE IF ~exists
    THEN Answers(Response("stats", 0, 500, "Failed to retrieve stats", TRUE, FALSE), tbl)
    ELSE Begins(tbl)

get_stats(conn) ==
    LET r == StatsRequest(table, notes, conn)
    IN  /\ notes' = r.notes
        /\ IF r.begins
           THEN /\ BagCardinality(pending) < MaxInFlight
                /\ pending' = pending (+) SetToBag(
                      { Request("stats", "counted", 0, EmptyDict, 0, CountRows(notes), {}) })
           ELSE /\ Sends(r.resp)
                /\ UNCHANGED pending
        /\ UNCHANGED <<table, seq, now, issued, deleted>>

\* The response of get_stats for the results of its two queries: jsonify
\* raises on keys it cannot sort, after the connection is closed.
StatsResponse(total, categories) ==
    IF Sortable(DOMAIN categories)
    THEN Response("stats", 0, 200,
                  [total_notes |-> total, categories |-> categories], TRUE, TRUE)
    ELSE Response("stats", 0, 500, "Failed to retrieve stats", TRUE, TRUE)

\* From SELECT category, COUNT(*) ... GROUP BY category, which reads the
\* rows committed by now, to the response.
get_stats_group(t) ==
    /\ t.op = "stats" /\ t.pc = "counted"
    /\ Sends(StatsResponse(t.total, GroupByCategory(notes)))
    /\ pending' = pending (-) SetToBag({t})
    /\ UNCHANGED <<table, notes, seq, now, issued, deleted>>

-----------------------------------------------------------------------------
(* Specification *)

Next ==
    \/ \E conn \in ConnOutcomes : init_db(conn)
    \/ \E conn \in ConnOutcomes : health_check(conn)
    \/ \E conn \in ConnOutcomes : readiness_check(conn)
    \/ \E c \in CategoryArgs, conn \in ConnOutcomes : get_notes(c, conn)
    \/ \E id \in Ids, conn \in ConnOutcomes : get_note(id, conn)
    \/ \E data \in Bodies, conn \in ConnOutcomes : create_note(data, conn)
    \/ \E t \in BagToSet(pending) : create_insert(t)
    \/ \E t \in BagToSet(pending) : create_commit(t)
    \/ \E id \in Ids, data \in Bodies, conn \in ConnOutcomes : update_note(id, data, conn)
    \/ \E t \in BagToSet(pending) : update_apply(t)
    \/ \E id \in Ids, conn \in ConnOutcomes : delete_note(id, conn)
    \/ \E conn \in ConnOutcomes : get_stats(conn)
    \/ \E t \in BagToSet(pending) : get_stats_group(t)

Spec == Init /\ [][Next]_vars

-----------------------------------------------------------------------------
(* Properties *)

RECURSIVE SumValues(_)
\* sum(f.values()) of a dict f
SumValues(f) ==
    IF DOMAIN f = {} THEN 0
    ELSE LET k == CHOOSE k \in DOMAIN f : TRUE
         IN  f[k] + SumValues([ j \in DOMAIN f \ {k} |-> f[j] ])

\* The JSON value of a field of a response: null or a string.
AsJson(s) == IF s = None THEN Null ELSE Str(s)

\* The body is a JSON object with key k.
HasKey(data, k) == data.kind = "dict" /\ k \in DOMAIN data.val

\* The timestamps a transaction may have.
Times == 1..MaxClock

\* The responses the handlers can return in this state: those of the
\* requests that may arrive and those of the next statement of each request
\* in flight.
Responses ==
    { HealthResponse(conn) : conn \in ConnOutcomes }
      \cup { ReadyResponse(conn) : conn \in ConnOutcomes }
      \cup UNION { ListResponses(table, notes, c, conn)
                     : c \in CategoryArgs, conn \in ConnOutcomes }
      \cup { GetNoteResponse(table, notes, id, conn)
               : id \in Ids, conn \in ConnOutcomes }
      \cup { CreateRequest(notes, data, conn).resp : data \in Bodies, conn \in ConnOutcomes }
      \cup { CreateInsert(table, notes, seq, t).resp
               : t \in { u \in BagToSet(pending) : u.op = "create" /\ u.pc = "begun" } }
      \cup { CreateCommit(notes, t).resp
               : t \in { u \in BagToSet(pending) : u.op = "create" /\ u.pc = "inserted" } }
      \cup { UpdateRequest(notes, id, data, conn).resp
               : id \in Ids, data \in Bodies, conn \in ConnOutcomes }
      \cup { UpdateApply(table, notes, t).resp
               : t \in { u \in BagToSet(pending) : u.op = "update" } }
      \cup { DeleteNote(table, notes, id, conn).resp
               : id \in Ids, conn \in ConnOutcomes }
      \cup { StatsRequest(table, notes, conn).resp : conn \in ConnOutcomes }
      \cup { StatsResponse(t.total, GroupByCategory(notes))
               : t \in { u \in BagToSet(pending) : u.op = "stats" } }

\* C1: every response a handler returns, on every exit path, is returned
\* with the connection the handler opened (if any) closed: no connection is
\* left open by a request that has completed.
C1_ConnectionClosedOnReturn ==
    \A r \in Responses : r.connOpened => r.connClosed

\* C2: in every state of the table, a create request whose body is absent,
\* empty, or lacks the key title or the key content is answered 400 without
\* a statement being sent to the database, so the rows of the table stay as
\* they were.
C2_InvalidCreateChangesNothing ==
    \A data \in Bodies, conn \in ConnOutcomes :
        ( \/ data.kind = "none"
          \/ Falsy(data)
          \/ ~HasKey(data, "title")
          \/ ~HasKey(data, "content") )
        => LET r == CreateRequest(notes, data, conn)
           IN  ~r.begins /\ r.resp.status = 400 /\ r.notes = notes

\* C3: every validation failure (a create lacking title or content, an
\* update with a missing or empty body, an update whose body has none of
\* title, content, category) returns 400 with no connection opened, also
\* when the database is unreachable.
C3_ValidationBeforeDatabase ==
    \A data \in Bodies, conn \in ConnOutcomes :
        /\ (~HasKey(data, "title") \/ ~HasKey(data, "content"))
           => LET r == CreateRequest(notes, data, conn)
              IN  ~r.begins /\ r.resp.status = 400 /\ ~r.resp.connOpened
        /\ (Falsy(data) \/ \A k \in Columns : ~HasKey(data, k))
           => \A id \in Ids :
                LET r == UpdateRequest(notes, id, data, conn)
                IN  ~r.begins /\ r.resp.status = 400 /\ ~r.resp.connOpened

\* C4: a successful update of note id with a body supplying the fields S
\* sets exactly the fields of S, to the supplied values, and gives updated_at
\* a value > its previous value and >= created_at; the other fields of the
\* note, its created_at, the set of ids and every other note are unchanged.
C4_UpdateSetsOnlySupplied ==
    \A t \in BagToSet(pending) :
        t.op = "update"
        => LET r == UpdateApply(table, notes, t)
           IN  r.resp.status = 200
               => /\ DOMAIN r.notes = DOMAIN notes
                  /\ \A k \in Columns :
                        IF k \in DOMAIN t.data
                        THEN AsJson(r.notes[t.id][k]) = t.data[k]
                        ELSE r.notes[t.id][k] = notes[t.id][k]
                  /\ r.notes[t.id].created_at = notes[t.id].created_at
                  /\ r.notes[t.id].updated_at > notes[t.id].updated_at
                  /\ r.notes[t.id].updated_at >= r.notes[t.id].created_at
                  /\ \A j \in DOMAIN notes \ {t.id} : r.notes[j] = notes[j]

\* C5: once a delete of id has returned 200, in every later state a get of
\* id, the UPDATE of every update of id with a valid body (whenever its
\* transaction began) and a delete of id each return 404 (when the database
\* accepts the connection), and the update and the delete change no row.
C5_DeletedStaysNotFound ==
    \A id \in deleted :
        /\ GetNoteResponse(table, notes, id, "ok").status = 404
        /\ \A data \in Bodies, ts \in Times :
             UpdateRequest(notes, id, data, "ok").begins
             => LET r == UpdateApply(table, notes,
                            Request("update", "begun", id, data.val, ts, 0, {}))
                IN  r.resp.status = 404 /\ r.notes = notes
        /\ LET r == DeleteNote(table, notes, id, "ok")
           IN  r.resp.status = 404 /\ r.notes = notes

\* A note was deleted while an update of it was between BEGIN and UPDATE.
C5_Witness ==
    \E t \in BagToSet(pending) : t.op = "update" /\ t.id \in deleted

\* C6: on every table, a list request with category = X returns exactly the
\* notes whose category equals X (for every string X, the empty string
\* included), and one without the parameter returns all notes; in both
\* cases ordered by created_at descending.
C6_ListFiltersExactly ==
    table =>
    \A c \in CategoryArgs :
        \A r \in ListResponses(table, notes, c, "ok") :
            LET want == IF c = None
                        THEN DOMAIN notes
                        ELSE { i \in DOMAIN notes : notes[i].category = c }
                body == r.body
            IN  /\ r.status = 200
                /\ Len(body) = Cardinality(want)
                /\ { body[k].id : k \in DOMAIN body } = want
                /\ \A k \in DOMAIN body : body[k] = NoteJson(body[k].id, notes[body[k].id])
                /\ \A k, l \in DOMAIN body :
                      k < l => notes[body[k].id].created_at
                                 >= notes[body[l].id].created_at

\* C7: every 200 response of the stats endpoint has total_notes equal to
\* the sum of the values of categories, whatever commits between its two
\* queries.
C7_StatsTotalIsSum ==
    \A t \in BagToSet(pending) :
        t.op = "stats"
        => LET r == StatsResponse(t.total, GroupByCategory(notes))
           IN  r.status = 200
               => r.body.total_notes = SumValues(r.body.categories)

\* C8: the id the 201 response of a create returns is greater than every
\* id a create had returned when its request arrived, and no create has
\* returned it before.
C8_IdsStrictlyIncreasing ==
    \A t \in BagToSet(pending) :
        (t.op = "create" /\ t.pc = "inserted")
        => LET id == CreateCommit(notes, t).resp.body.id
           IN  /\ \A i \in t.after : i < id
               /\ id \notin issued

\* A create is about to answer whose request arrived after another create
\* had answered and that note was deleted.
C8_Witness ==
    \E t \in BagToSet(pending) :
        /\ t.op = "create" /\ t.pc = "inserted"
        /\ \E i \in t.after : i \in deleted

\* C9: when a create with title and content present returns 201 with id i,
\* a get of i on the table its commit leaves returns 200 with the title and
\* the content of the request, the category of the request ("general" when
\* it has none), and created_at and updated_at not null.
C9_CreateGetRoundTrip ==
    \A t \in BagToSet(pending) :
        (t.op = "create" /\ t.pc = "inserted")
        => LET r   == CreateCommit(notes, t)
               got == GetNoteResponse(table, r.notes, r.resp.body.id, "ok")
           IN  /\ r.resp.status = 201
               /\ got.status = 200
               /\ got.body.id = r.resp.body.id
               /\ AsJson(got.body.title) = t.data["title"]
               /\ AsJson(got.body.content) = t.data["content"]
               /\ AsJson(got.body.category)
                     = IF "category" \in DOMAIN t.data
                       THEN t.data["category"] ELSE Str("general")
               /\ got.body.created_at # None
               /\ got.body.updated_at # None

\* C10: every stored note has a title and a content that are non-empty
\* strings.
C10_TitleContentNonEmpty ==
    \A i \in DOMAIN notes :
        /\ notes[i].title # None /\ notes[i].title # ""
        /\ notes[i].content # None /\ notes[i].content # ""

====
